---- MODULE Spec2Model ----
(***************************************************************************)
(* A model of whatdo (jpothi01/whatdo): the task tree of src/core.rs, its  *)
(* lookup, its queue- and priority-aware ordering (sort_whatdos / next),   *)
(* its filtered tree view (WhatdoTreeView::fmt_rec) and its rewrite        *)
(* operations (add, delete_whatdo, delete, resolve, finish).               *)
(***************************************************************************)
EXTENDS Integers, Sequences, FiniteSets, TLC

VARIABLES file, branch, branches, out

vars == <<file, branch, branches, out>>

(***************************************************************************)
(* Option<T>: None is the empty tuple, Some(x) the one-element tuple.      *)
(***************************************************************************)
None == <<>>
Some(x) == <<x>>
IsSome(o) == o # <<>>
Unwrap(o) == o[1]

Range(s) == {s[i] : i \in 1..Len(s)}
MinOf(S) == CHOOSE m \in S : \A k \in S : m <= k

(***************************************************************************)
(* struct Whatdo                                                           *)
(***************************************************************************)
Whatdo(id, summary, whatdos, queue, priority, tags, branch_name, simple_format) ==
    [id |-> id, summary |-> summary, whatdos |-> whatdos, queue |-> queue,
     priority |-> priority, tags |-> tags, branch_name |-> branch_name,
     simple_format |-> simple_format]

\* Whatdo::simple
simple(id, summary) == Whatdo(id, summary, None, None, None, None, None, TRUE)

\* deslugify on the identifiers of this model: one lower-case letter each,
\* so no '_' or '-' is replaced and the first character is upper-cased.
deslugify(s) ==
    CASE s = "a" -> "A" [] s = "b" -> "B" [] s = "c" -> "C"
      [] s = "d" -> "D" [] s = "n" -> "N" [] s = "r" -> "R"
      [] s = "z" -> "Z" [] OTHER -> s

\* Whatdo::summary
summary(wd) == IF IsSome(wd.summary) THEN Unwrap(wd.summary) ELSE deslugify(wd.id)

\* Whatdo::whatdos
whatdos(wd) == IF wd.whatdos = None THEN <<>> ELSE Unwrap(wd.whatdos)

\* Whatdo::branch_name
branch_name(wd) == IF IsSome(wd.branch_name) THEN Unwrap(wd.branch_name) ELSE wd.id

(***************************************************************************)
(* Predicates and filters are closures in the source; here they are data.  *)
(*   [kind |-> "id", id]            |wd| wd.id == id                       *)
(*   [kind |-> "branch", name]      |wd| wd.branch_name() == name          *)
(*   [kind |-> "all"]               |_| true (test_sort_whatdos)           *)
(*   [kind |-> "set", ids]          any F: Fn(&Whatdo) -> bool, given by   *)
(*                                  the ids of the tasks it accepts        *)
(*   [kind |-> "next", tags, priorities]   the closure built by next       *)
(*   [kind |-> "show", tags, priorities]   the closure built by show       *)
(***************************************************************************)
\* Iterator::find over tags: the first filter tag that ts contains
iter_find(tags, ts) ==
    LET hits == {i \in 1..Len(tags) : tags[i] \in Range(ts)}
    IN  IF hits = {} THEN None ELSE Some(tags[MinOf(hits)])

\* the closure `filter` of next (core.rs:680-689)
next_filter(tags, priorities, wd) ==
    /\ \/ Len(tags) = 0
       \/ LET mapped == IF IsSome(wd.tags)
                        THEN Some(iter_find(tags, Unwrap(wd.tags)))
                        ELSE None
          IN  IsSome(mapped)
    /\ \/ Len(priorities) = 0
       \/ (IsSome(wd.priority) /\ Unwrap(wd.priority) \in Range(priorities))

\* the closure built by show for a tag / priority listing (main.rs:244-250)
show_filter(tags, priorities, w) ==
    /\ \/ Len(tags) = 0
       \/ (IsSome(w.tags) /\ \E t \in Range(Unwrap(w.tags)) : t \in Range(tags))
    /\ \/ Len(priorities) = 0
       \/ (IsSome(w.priority) /\ Unwrap(w.priority) \in Range(priorities))

apply(f, wd) ==
    CASE f.kind = "id" -> wd.id = f.id
      [] f.kind = "branch" -> branch_name(wd) = f.name
      [] f.kind = "all" -> TRUE
      [] f.kind = "set" -> wd.id \in f.ids
      [] f.kind = "next" -> next_filter(f.tags, f.priorities, wd)
      [] f.kind = "show" -> show_filter(f.tags, f.priorities, wd)

(***************************************************************************)
(* Tree index                                                              *)
(***************************************************************************)
RECURSIVE find_whatdo_and_parent(_, _)
find_whatdo_and_parent(root, pred) ==
    IF apply(pred, root) THEN Some(<<root, None>>)
    ELSE IF root.whatdos = None THEN None
    ELSE LET wds == Unwrap(root.whatdos)
             hits == {i \in 1..Len(wds) : find_whatdo_and_parent(wds[i], pred) # None}
         IN  IF hits = {} THEN None
             ELSE LET r == Unwrap(find_whatdo_and_parent(wds[MinOf(hits)], pred))
                  IN  Some(<<r[1], IF IsSome(r[2]) THEN r[2] ELSE Some(root)>>)

find_whatdo(root, id) ==
    LET r == find_whatdo_and_parent(root, [kind |-> "id", id |-> id])
    IN  IF r = None THEN None ELSE Some(Unwrap(r)[1])

find_parent(root, id) ==
    LET r == find_whatdo_and_parent(root, [kind |-> "id", id |-> id])
    IN  IF r = None THEN None ELSE Unwrap(r)[2]

\* Return the first ancestor of the whatdo with the given id that has a git
\* branch; `existing` is the set of names git::branch_exists accepts.
RECURSIVE find_ancestor_with_branch(_, _, _)
find_ancestor_with_branch(root, id, existing) ==
    LET r == find_whatdo_and_parent(root, [kind |-> "id", id |-> id])
    IN  IF r # None /\ IsSome(Unwrap(r)[2])
        THEN LET parent == Unwrap(Unwrap(r)[2])
             IN  IF branch_name(parent) \in existing
                 THEN Some(parent)
                 ELSE find_ancestor_with_branch(root, parent.id, existing)
        ELSE None

(***************************************************************************)
(* Traversal / sort                                                        *)
(***************************************************************************)
\* Variant of priority_cmp: a task without priority sorts before the others.
priority_cmp_none_first(a, b) ==
    CASE IsSome(a.priority) /\ IsSome(b.priority) ->
            IF Unwrap(a.priority) < Unwrap(b.priority) THEN "Less"
            ELSE IF Unwrap(a.priority) = Unwrap(b.priority) THEN "Equal"
            ELSE "Greater"
      [] a.priority = None /\ IsSome(b.priority) -> "Less"
      [] IsSome(a.priority) /\ b.priority = None -> "Greater"
      [] OTHER -> "Equal"

\* the comparator handed to sort_by (core.rs:555-560)
priority_cmp(a, b) ==
    CASE IsSome(a.priority) /\ IsSome(b.priority) ->
            IF Unwrap(a.priority) < Unwrap(b.priority) THEN "Less"
            ELSE IF Unwrap(a.priority) = Unwrap(b.priority) THEN "Equal"
            ELSE "Greater"
      [] a.priority = None /\ IsSome(b.priority) -> "Greater"
      [] IsSome(a.priority) /\ b.priority = None -> "Less"
      [] OTHER -> "Equal"

\* slice::sort_by is a stable sort: each element goes behind the elements
\* before it in the slice that do not compare Greater than it.
RECURSIVE sort_by(_)
sort_by(s) ==
    IF s = <<>> THEN <<>>
    ELSE LET init == sort_by(SubSeq(s, 1, Len(s) - 1))
             x == s[Len(s)]
             k == Cardinality({i \in 1..Len(init) : priority_cmp(init[i], x) # "Greater"})
         IN  SubSeq(init, 1, k) \o <<x>> \o SubSeq(init, k + 1, Len(init))

\* Depth of nested sort_whatdos frames the stack holds; a deeper recursion
\* overflows the stack and aborts the process.
MaxStack == 8

\* sort_whatdos returns [result, visited, overflow]: the Vec it returns, the
\* visited set as the call leaves it, and whether the recursion ran out of
\* stack (then nothing is returned).
\* Rust evaluates an argument or a `let` once, before the call or the use:
\* a value that is used more than once is bound here by a set constructor
\* over a singleton, {e : x \in {v}}, which computes v once.
RECURSIVE sort_whatdos(_, _, _, _, _), sort_queue(_, _, _, _, _, _, _), sort_subwhatdos(_, _, _, _, _, _)
\* Variant of sort_queue: the queue entry is not inserted into visited.
sort_queue_unmarked(wd, queue, i, filter, satisfies_filter, st, depth) ==
    IF i > Len(queue) \/ st.overflow THEN st
    ELSE LET id == queue[i]
         IN  CHOOSE ret \in
                {IF id \in st.visited \/ queue_wd = None
                 THEN sort_queue(wd, queue, i + 1, filter, satisfies_filter, st, depth)
                 ELSE CHOOSE r \in
                        {sort_queue(wd, queue, i + 1, filter, satisfies_filter, st1, depth) :
                            st1 \in {[result |-> st.result \o other.result,
                                      visited |-> st.visited,
                                      overflow |-> other.overflow] :
                                other \in {sort_whatdos(Unwrap(queue_wd), filter, st.visited,
                                                        satisfies_filter, depth + 1)}}} : TRUE :
                    queue_wd \in {find_whatdo(wd, id)}} : TRUE

\* Variant of sort_queue: a queue entry that is not found below wd is
\* inserted into visited.
sort_queue_mark_unresolved(wd, queue, i, filter, satisfies_filter, st, depth) ==
    IF i > Len(queue) \/ st.overflow THEN st
    ELSE LET id == queue[i]
         IN  CHOOSE ret \in
                {IF id \in st.visited
                 THEN sort_queue(wd, queue, i + 1, filter, satisfies_filter, st, depth)
                 ELSE IF queue_wd = None
                 THEN sort_queue(wd, queue, i + 1, filter, satisfies_filter,
                                 [st EXCEPT !.visited = @ \cup {id}], depth)
                 ELSE CHOOSE r \in
                        {sort_queue(wd, queue, i + 1, filter, satisfies_filter, st1, depth) :
                            st1 \in {[result |-> st.result \o other.result,
                                      visited |-> other.visited \cup {id},
                                      overflow |-> other.overflow] :
                                other \in {sort_whatdos(Unwrap(queue_wd), filter, st.visited,
                                                        satisfies_filter, depth + 1)}}} : TRUE :
                    queue_wd \in {find_whatdo(wd, id)}} : TRUE

\* the loop over wd.queue (core.rs:534-552), from entry i on
sort_queue(wd, queue, i, filter, satisfies_filter, st, depth) ==
    IF i > Len(queue) \/ st.overflow THEN st
    ELSE LET id == queue[i]
         IN  CHOOSE ret \in
                {IF id \in st.visited \/ queue_wd = None
                 THEN sort_queue(wd, queue, i + 1, filter, satisfies_filter, st, depth)
                 ELSE CHOOSE r \in
                        {sort_queue(wd, queue, i + 1, filter, satisfies_filter, st1, depth) :
                            st1 \in {[result |-> st.result \o other.result,
                                      visited |-> other.visited \cup {id},
                                      overflow |-> other.overflow] :
                                other \in {sort_whatdos(Unwrap(queue_wd), filter, st.visited,
                                                        satisfies_filter, depth + 1)}}} : TRUE :
                    queue_wd \in {find_whatdo(wd, id)}} : TRUE

\* the loop over the sorted children (core.rs:561-569), from child i on
sort_subwhatdos(sorted, i, filter, satisfies_filter, st, depth) ==
    IF i > Len(sorted) \/ st.overflow THEN st
    ELSE LET subwhatdo == sorted[i]
         IN  IF subwhatdo.id \in st.visited
             THEN sort_subwhatdos(sorted, i + 1, filter, satisfies_filter, st, depth)
             ELSE CHOOSE r \in
                    {sort_subwhatdos(sorted, i + 1, filter, satisfies_filter, st1, depth) :
                        st1 \in {[result |-> st.result \o other.result,
                                  visited |-> other.visited \cup {subwhatdo.id},
                                  overflow |-> other.overflow] :
                            other \in {sort_whatdos(subwhatdo, filter, st.visited,
                                                    satisfies_filter, depth + 1)}}} : TRUE

\* Variant of sort_whatdos: a node that has children is pushed after them.
sort_whatdos_with_parents(wd, filter, visited, ancestor_satisfies_filter, depth) ==
    IF depth > MaxStack
    THEN [result |-> <<>>, visited |-> visited, overflow |-> TRUE]
    ELSE CHOOSE ret \in
        {CHOOSE r \in
            {IF st1.overflow THEN st1
             ELSE IF IsSome(wd.whatdos) /\ Len(Unwrap(wd.whatdos)) > 0
             THEN CHOOSE r2 \in
                    {[st2 EXCEPT !.result = st2.result \o <<wd>>] :
                        st2 \in {sort_subwhatdos(sort_by(Unwrap(wd.whatdos)), 1, filter,
                                                 satisfies_filter, st1, depth)}} : TRUE
             ELSE IF satisfies_filter /\ wd.id \notin st1.visited
             THEN [st1 EXCEPT !.result = st1.result \o <<wd>>]
             ELSE st1 :
                st1 \in {IF IsSome(wd.queue)
                         THEN sort_queue(wd, Unwrap(wd.queue), 1, filter,
                                         satisfies_filter, st0, depth)
                         ELSE st0}} : TRUE :
            satisfies_filter \in {apply(filter, wd) \/ ancestor_satisfies_filter},
            st0 \in {[result |-> <<>>, visited |-> visited, overflow |-> FALSE]}} : TRUE

\* Variant of sort_whatdos: a node that has a queue is ordered by its queue
\* alone, its children are not expanded.
sort_whatdos_queue_only(wd, filter, visited, ancestor_satisfies_filter, depth) ==
    IF depth > MaxStack
    THEN [result |-> <<>>, visited |-> visited, overflow |-> TRUE]
    ELSE CHOOSE ret \in
        {IF IsSome(wd.queue)
         THEN sort_queue(wd, Unwrap(wd.queue), 1, filter, satisfies_filter, st0, depth)
         ELSE IF IsSome(wd.whatdos) /\ Len(Unwrap(wd.whatdos)) > 0
         THEN CHOOSE r \in
                {sort_subwhatdos(sorted, 1, filter, satisfies_filter, st0, depth) :
                    sorted \in {sort_by(Unwrap(wd.whatdos))}} : TRUE
         ELSE IF satisfies_filter /\ wd.id \notin st0.visited
         THEN [st0 EXCEPT !.result = st0.result \o <<wd>>]
         ELSE st0 :
            satisfies_filter \in {apply(filter, wd) \/ ancestor_satisfies_filter},
            st0 \in {[result |-> <<>>, visited |-> visited, overflow |-> FALSE]}} : TRUE

sort_whatdos(wd, filter, visited, ancestor_satisfies_filter, depth) ==
    IF depth > MaxStack
    THEN [result |-> <<>>, visited |-> visited, overflow |-> TRUE]
    ELSE CHOOSE ret \in
        {CHOOSE r \in
            {IF st1.overflow THEN st1
             ELSE IF IsSome(wd.whatdos) /\ Len(Unwrap(wd.whatdos)) > 0
             THEN CHOOSE r2 \in
                    {sort_subwhatdos(sorted, 1, filter, satisfies_filter, st1, depth) :
                        sorted \in {sort_by(Unwrap(wd.whatdos))}} : TRUE
             ELSE IF satisfies_filter /\ wd.id \notin st1.visited
             THEN [st1 EXCEPT !.result = st1.result \o <<wd>>]
             ELSE st1 :
                st1 \in {IF IsSome(wd.queue)
                         THEN sort_queue(wd, Unwrap(wd.queue), 1, filter,
                                         satisfies_filter, st0, depth)
                         ELSE st0}} : TRUE :
            satisfies_filter \in {apply(filter, wd) \/ ancestor_satisfies_filter},
            st0 \in {[result |-> <<>>, visited |-> visited, overflow |-> FALSE]}} : TRUE

\* current(): the first task whose branch name is the current git branch
current(root, current_branch) ==
    LET r == find_whatdo_and_parent(root, [kind |-> "branch", name |-> current_branch])
    IN  IF r = None THEN None ELSE Some(Unwrap(r)[1])

\* Iterator::take
take(s, n) == SubSeq(s, 1, IF n < Len(s) THEN n ELSE Len(s))

\* Variant of next: visited starts empty, the active task is not seeded.
next_unseeded(root, current_branch, amount, tags, priorities) ==
    LET filter == [kind |-> "next", tags |-> tags, priorities |-> priorities]
    IN  CHOOSE ret \in
          {CHOOSE r \in
             {CHOOSE r2 \in
                {[result |-> IF amount = None THEN cur.result \o rest.result
                             ELSE take(cur.result \o rest.result, Unwrap(amount)),
                  overflow |-> rest.overflow] :
                    rest \in {IF cur.overflow THEN cur
                              ELSE sort_whatdos(root, filter, cur.visited, FALSE, 1)}} : TRUE :
                cur \in {IF IsSome(current_wd)
                         THEN sort_whatdos(Unwrap(current_wd), filter, {}, FALSE, 1)
                         ELSE [result |-> <<>>, visited |-> {},
                               overflow |-> FALSE]}} : TRUE :
            current_wd \in {current(root, current_branch)}} : TRUE

\* next(amount, tags, priorities): amount is None for NextAmount::All and
\* Some(n) for NextAmount::AtMost(n). Returns [result, overflow]; visited is
\* seeded with the id of the active task.
next(root, current_branch, amount, tags, priorities) ==
    LET filter == [kind |-> "next", tags |-> tags, priorities |-> priorities]
    IN  CHOOSE ret \in
          {CHOOSE r \in
             {CHOOSE r2 \in
                {[result |-> IF amount = None THEN cur.result \o rest.result
                             ELSE take(cur.result \o rest.result, Unwrap(amount)),
                  overflow |-> rest.overflow] :
                    rest \in {IF cur.overflow THEN cur
                              ELSE sort_whatdos(root, filter, cur.visited, FALSE, 1)}} : TRUE :
                cur \in {IF IsSome(current_wd)
                         THEN sort_whatdos(Unwrap(current_wd), filter, (IF IsSome(current_wd) THEN {Unwrap(current_wd).id} ELSE {}), FALSE, 1)
                         ELSE [result |-> <<>>, visited |-> (IF IsSome(current_wd) THEN {Unwrap(current_wd).id} ELSE {}),
                               overflow |-> FALSE]}} : TRUE :
            current_wd \in {current(root, current_branch)}} : TRUE

(***************************************************************************)
(* Mutators                                                                *)
(***************************************************************************)
\* Iterator::position: the index of the first element equal to x
position(s, x) ==
    LET hits == {i \in 1..Len(s) : s[i] = x}
    IN  IF hits = {} THEN None ELSE Some(MinOf(hits))

\* Variant of remove: the first element is dropped, whatever the index.
remove_first(s, i) == Tail(s)

\* Variant of remove: the element and everything behind it is dropped.
remove_truncate(s, i) == SubSeq(s, 1, i - 1)

\* Vec::remove
remove(s, i) == SubSeq(s, 1, i - 1) \o SubSeq(s, i + 1, Len(s))

RECURSIVE delete_whatdo(_, _)
delete_whatdo(whatdo, id) ==
    LET queue1 ==
            IF IsSome(whatdo.queue)
            THEN LET queue == Unwrap(whatdo.queue)
                     found == position(queue, id)
                 IN  IF IsSome(found) THEN Some(remove(queue, Unwrap(found)))
                     ELSE whatdo.queue
            ELSE None
        whatdos1 ==
            IF IsSome(whatdo.whatdos)
            THEN LET wds == Unwrap(whatdo.whatdos)
                     found == position([i \in 1..Len(wds) |-> wds[i].id], id)
                 IN  IF IsSome(found) THEN Some(remove(wds, Unwrap(found)))
                     ELSE whatdo.whatdos
            ELSE None
        whatdos2 ==
            IF IsSome(whatdos1)
            THEN Some([i \in 1..Len(Unwrap(whatdos1)) |->
                          delete_whatdo(Unwrap(whatdos1)[i], id)])
            ELSE None
    IN  [whatdo EXCEPT !.queue = queue1, !.whatdos = whatdos2]

\* The strings of this model are single characters. TAG_RE accepts lower-case
\* letters, digits, '-' and '_'; ID_RE accepts upper-case letters and '/' too.
LowerCase == {"a", "b", "c", "d", "m", "n", "r", "t", "u", "x", "y", "z"}
UpperCase == {"T"}
\* Variant of validate_tag: every tag is accepted.
validate_tag_any(tag) == tag = tag

validate_tag(tag) == tag \in LowerCase
validate_id(id) == id \in LowerCase \cup UpperCase

\* find_whatdo_mut, then push: new_whatdo appended to the children of the
\* first task in depth-first order whose id is parent_id
RECURSIVE push_whatdo(_, _, _)
push_whatdo(root, parent_id, new_whatdo) ==
    IF root.id = parent_id
    THEN [root EXCEPT !.whatdos = Some(whatdos(root) \o <<new_whatdo>>)]
    ELSE LET wds == whatdos(root)
             hits == {i \in 1..Len(wds) : IsSome(find_whatdo(wds[i], parent_id))}
         IN  IF hits = {} THEN root
             ELSE [root EXCEPT !.whatdos =
                      Some([i \in 1..Len(wds) |->
                               IF i = MinOf(hits)
                               THEN push_whatdo(wds[i], parent_id, new_whatdo)
                               ELSE wds[i]])]

\* The task add builds from its arguments (core.rs:607-620)
new_whatdo_of(a) ==
    Whatdo(a.id, a.summary, None, None, a.priority,
           IF Len(a.tags) > 0 THEN Some(a.tags) ELSE None, a.branch_name, FALSE)

\* Variant of add_check: the branch name of the new task is not compared
\* with the branch names of the tasks in the tree.
add_check_no_branch(whatdo, a, current_branch, existing) ==
    LET new_whatdo == new_whatdo_of(a)
    IN  IF IsSome(find_whatdo_and_parent(whatdo, [kind |-> "id", id |-> a.id]))
        THEN Some("Whatdo with ID already exists")
        ELSE IF \E i \in 1..Len(a.tags) : ~validate_tag(a.tags[i])
        THEN Some("Tag must be of the form [a-z0-9-_]+")
        ELSE IF ~validate_id(a.id)
        THEN Some("ID must be of the form [a-zA-Z0-9-_/]+")
        ELSE IF branch_name(new_whatdo) \in existing
        THEN Some("Branch with name already exists")
        ELSE IF a.parent_id = Some("@") /\ current(whatdo, current_branch) = None
        THEN Some("No current whatdo to add to")
        ELSE IF /\ IsSome(a.parent_id) /\ a.parent_id # Some("@")
                /\ find_whatdo(whatdo, Unwrap(a.parent_id)) = None
        THEN Some("Parent not found")
        ELSE None

\* Variant of add_check: the id of the new task is not looked up in the tree.
add_check_no_id(whatdo, a, current_branch, existing) ==
    LET new_whatdo == new_whatdo_of(a)
    IN  IF \E i \in 1..Len(a.tags) : ~validate_tag(a.tags[i])
        THEN Some("Tag must be of the form [a-z0-9-_]+")
        ELSE IF ~validate_id(a.id)
        THEN Some("ID must be of the form [a-zA-Z0-9-_/]+")
        ELSE IF IsSome(find_whatdo_and_parent(
                          whatdo, [kind |-> "branch", name |-> branch_name(new_whatdo)]))
        THEN Some("Whatdo with branch name already exists")
        ELSE IF branch_name(new_whatdo) \in existing
        THEN Some("Branch with name already exists")
        ELSE IF a.parent_id = Some("@") /\ current(whatdo, current_branch) = None
        THEN Some("No current whatdo to add to")
        ELSE IF /\ IsSome(a.parent_id) /\ a.parent_id # Some("@")
                /\ find_whatdo(whatdo, Unwrap(a.parent_id)) = None
        THEN Some("Parent not found")
        ELSE None

\* The error add returns before it touches the tree, if any (core.rs:592-648),
\* for the arguments a = [id, tags, summary, priority, branch_name, parent_id];
\* `existing` is the set of names git::branch_exists accepts.
add_check(whatdo, a, current_branch, existing) ==
    LET new_whatdo == new_whatdo_of(a)
    IN  IF IsSome(find_whatdo_and_parent(whatdo, [kind |-> "id", id |-> a.id]))
        THEN Some("Whatdo with ID already exists")
        ELSE IF \E i \in 1..Len(a.tags) : ~validate_tag(a.tags[i])
        THEN Some("Tag must be of the form [a-z0-9-_]+")
        ELSE IF ~validate_id(a.id)
        THEN Some("ID must be of the form [a-zA-Z0-9-_/]+")
        ELSE IF IsSome(find_whatdo_and_parent(
                          whatdo, [kind |-> "branch", name |-> branch_name(new_whatdo)]))
        THEN Some("Whatdo with branch name already exists")
        ELSE IF branch_name(new_whatdo) \in existing
        THEN Some("Branch with name already exists")
        ELSE IF a.parent_id = Some("@") /\ current(whatdo, current_branch) = None
        THEN Some("No current whatdo to add to")
        ELSE IF /\ IsSome(a.parent_id) /\ a.parent_id # Some("@")
                /\ find_whatdo(whatdo, Unwrap(a.parent_id)) = None
        THEN Some("Parent not found")
        ELSE None

\* The tree add writes when add_check finds no error (core.rs:636-657)
add_tree(whatdo, a, current_branch) ==
    LET parent_id == IF a.parent_id = None THEN whatdo.id
                     ELSE IF a.parent_id = Some("@")
                     THEN Unwrap(current(whatdo, current_branch)).id
                     ELSE Unwrap(a.parent_id)
    IN  push_whatdo(whatdo, parent_id, new_whatdo_of(a))

(***************************************************************************)
(* The document: serde_yaml::Value, parse_whatdo and serialize_whatdo.     *)
(* A Mapping is the sequence of its <<key, value>> pairs in insertion      *)
(* order; a Number carries what as_i64 returns for it.                     *)
(***************************************************************************)
String(s) == [y |-> "String", s |-> s]
Number(as_i64) == [y |-> "Number", as_i64 |-> as_i64]
Sequence(items) == [y |-> "Sequence", items |-> items]
Mapping(items) == [y |-> "Mapping", items |-> items]
Null == [y |-> "Null"]

\* Mapping::get with a string key
mapping_get(items, k) ==
    LET hits == {i \in 1..Len(items) : items[i][1] = String(k)}
    IN  IF hits = {} THEN None ELSE Some(items[MinOf(hits)][2])

\* Mapping::insert: a key that is present keeps its place and takes the new
\* value, a new key goes to the end
mapping_insert(items, k, v) ==
    IF \E i \in 1..Len(items) : items[i][1] = k
    THEN [i \in 1..Len(items) |-> IF items[i][1] = k THEN <<k, v>> ELSE items[i]]
    ELSE Append(items, <<k, v>>)

\* Result<T>
Ok(v) == [ok |-> TRUE, val |-> v]
Err(msg) == [ok |-> FALSE, err |-> msg]

\* collect::<Result<Vec<_>>>(): the first error, or all the values
collect(rs) ==
    LET bad == {i \in 1..Len(rs) : ~rs[i].ok}
    IN  IF bad = {} THEN Ok([i \in 1..Len(rs) |-> rs[i].val]) ELSE rs[MinOf(bad)]

parse_queue_sequence(list) ==
    collect([i \in 1..Len(list) |->
                IF list[i].y # "String" THEN Err("Expected sequence item to be a string")
                ELSE IF ~validate_id(list[i].s) THEN Err("Invalid whatdo ID")
                ELSE Ok(list[i].s)])

parse_tags_sequence(list) ==
    collect([i \in 1..Len(list) |->
                IF list[i].y # "String" THEN Err("Expected sequence item to be a string")
                ELSE IF ~validate_tag(list[i].s) THEN Err("Invalid tag")
                ELSE Ok(list[i].s)])

\* Option<Vec<_>>::map(parse).transpose()
transpose(o, r) == IF o = None THEN Ok(None) ELSE IF r.ok THEN Ok(Some(r.val)) ELSE r

RECURSIVE parse_whatdo(_, _), parse_whatdo_map(_)
parse_whatdo_map(mapping) ==
    CHOOSE ret \in
        {collect(rs) :
            rs \in {[i \in 1..Len(mapping) |->
                        IF mapping[i][1].y # "String"
                        THEN Err("Expected mapping key to be a string")
                        ELSE IF ~validate_id(mapping[i][1].s)
                        THEN Err("Invalid whatdo ID")
                        ELSE parse_whatdo(mapping[i][1].s, mapping[i][2])]}} : TRUE

parse_whatdo(id, data) ==
    IF data.y = "String" THEN Ok(simple(id, Some(data.s)))
    ELSE IF data.y # "Mapping" THEN Err("Whatdo data must be string or mapping")
    ELSE
    LET items == data.items
        summary_value == mapping_get(items, "summary")
        whatdos_map == mapping_get(items, "whatdos")
        queue_sequence == mapping_get(items, "queue")
        priority_value == mapping_get(items, "priority")
        tags_sequence == mapping_get(items, "tags")
        branch_name_value == mapping_get(items, "branch_name")
    IN  IF IsSome(summary_value) /\ Unwrap(summary_value).y # "String"
        THEN Err("Expected 'summary' to be a string")
        ELSE IF IsSome(whatdos_map) /\ Unwrap(whatdos_map).y # "Mapping"
        THEN Err("Expected 'whatdos' to be a mapping")
        ELSE IF IsSome(queue_sequence) /\ Unwrap(queue_sequence).y # "Sequence"
        THEN Err("Expected 'queue' to be a sequence")
        ELSE IF IsSome(priority_value) /\ Unwrap(priority_value).y # "Number"
        THEN Err("Expected 'priority' to be a number")
        ELSE IF IsSome(priority_value) /\ Unwrap(priority_value).as_i64 = None
        THEN Err("Expected 'priority' to be an integer")
        ELSE IF IsSome(tags_sequence) /\ Unwrap(tags_sequence).y # "Sequence"
        THEN Err("Expected 'tags' to be a sequence")
        ELSE IF IsSome(branch_name_value) /\ Unwrap(branch_name_value).y # "String"
        THEN Err("Expected 'branch_name' to be a string")
        ELSE CHOOSE ret \in
            {IF ~wds.ok THEN wds
             ELSE IF ~queue.ok THEN queue
             ELSE IF ~tags.ok THEN tags
             ELSE Ok(Whatdo(id,
                            IF IsSome(summary_value)
                            THEN Some(Unwrap(summary_value).s) ELSE None,
                            wds.val, queue.val,
                            IF IsSome(priority_value)
                            THEN Unwrap(priority_value).as_i64 ELSE None,
                            tags.val,
                            IF IsSome(branch_name_value)
                            THEN Some(Unwrap(branch_name_value).s) ELSE None,
                            FALSE)) :
                wds \in {IF whatdos_map = None THEN Ok(None)
                         ELSE transpose(whatdos_map,
                                        parse_whatdo_map(Unwrap(whatdos_map).items))},
                queue \in {IF queue_sequence = None THEN Ok(None)
                           ELSE transpose(queue_sequence,
                                          parse_queue_sequence(Unwrap(queue_sequence).items))},
                tags \in {IF tags_sequence = None THEN Ok(None)
                          ELSE transpose(tags_sequence,
                                         parse_tags_sequence(Unwrap(tags_sequence).items))}} : TRUE

\* Whatdo::simple_format
simple_format(wd) ==
    /\ wd.simple_format
    /\ wd.queue = None /\ wd.whatdos = None /\ wd.priority = None /\ wd.tags = None

\* serialize_whatdo returns the pair <<key, value>>
RECURSIVE serialize_whatdo(_), whatdo_mapping(_, _, _), serialize_mapping(_)
\* the loop that fills whatdo_mapping (core.rs:416-420), from child i on
whatdo_mapping(wds, i, acc) ==
    IF i > Len(wds) THEN acc
    ELSE CHOOSE ret \in
            {whatdo_mapping(wds, i + 1, acc1) :
                acc1 \in {mapping_insert(acc, kv[1], kv[2]) :
                            kv \in {serialize_whatdo(wds[i])}}} : TRUE

\* the mapping written for a task that is not in shorthand form
\* (core.rs:371-426)
serialize_mapping(whatdo) ==
    LET m1 == IF IsSome(whatdo.summary)
              THEN mapping_insert(<<>>, String("summary"), String(Unwrap(whatdo.summary)))
              ELSE <<>>
        m2 == IF IsSome(whatdo.priority)
              THEN mapping_insert(m1, String("priority"), Number(whatdo.priority))
              ELSE m1
        m3 == IF IsSome(whatdo.branch_name)
              THEN mapping_insert(m2, String("branch_name"),
                                  String(Unwrap(whatdo.branch_name)))
              ELSE m2
        m4 == IF IsSome(whatdo.tags)
              THEN mapping_insert(m3, String("tags"),
                                  Sequence([i \in 1..Len(Unwrap(whatdo.tags)) |->
                                               String(Unwrap(whatdo.tags)[i])]))
              ELSE m3
        m5 == IF IsSome(whatdo.queue)
              THEN mapping_insert(m4, String("queue"),
                                  Sequence([i \in 1..Len(Unwrap(whatdo.queue)) |->
                                               String(Unwrap(whatdo.queue)[i])]))
              ELSE m4
    IN  Mapping(IF IsSome(whatdo.whatdos)
                THEN mapping_insert(m5, String("whatdos"),
                                    Mapping(whatdo_mapping(Unwrap(whatdo.whatdos), 1, <<>>)))
                ELSE m5)

\* Variant of serialize_whatdo: the summary of a task in shorthand form is
\* written under a summary key.
serialize_whatdo_no_shorthand(whatdo) ==
    IF simple_format(whatdo)
    THEN <<String(whatdo.id),
           IF IsSome(whatdo.summary)
           THEN Mapping(<<<<String("summary"), String(Unwrap(whatdo.summary))>>>>)
           ELSE Mapping(<<>>)>>
    ELSE <<String(whatdo.id), serialize_mapping(whatdo)>>

serialize_whatdo(whatdo) ==
    IF simple_format(whatdo)
    THEN <<String(whatdo.id),
           IF IsSome(whatdo.summary) THEN String(Unwrap(whatdo.summary))
           ELSE Mapping(<<>>)>>
    ELSE <<String(whatdo.id), serialize_mapping(whatdo)>>

(***************************************************************************)
(* Tree view                                                               *)
(***************************************************************************)
\* impl fmt::Display for Whatdo: the pieces written, in order. Every tag is
\* written, and behind every tag but the first a comma.
display_tags(tags) ==
    [k \in 1..(IF Len(tags) = 0 THEN 0 ELSE 2 * Len(tags) - 1) |->
        IF k = 1 THEN tags[1]
        ELSE IF k % 2 = 0 THEN tags[(k \div 2) + 1] ELSE ","]

display(wd) ==
    [id |-> wd.id,
     priority |-> wd.priority,
     tags |-> IF IsSome(wd.tags) THEN Some(display_tags(Unwrap(wd.tags))) ELSE None,
     summary |-> summary(wd)]

\* One printed line: `width` fill characters, then either the full display
\* form of a task or the bracketed id alone, dimmed or not.
full_line(wd, width) == [form |-> "full", dimmed |-> FALSE, width |-> width,
                         id |-> wd.id, text |-> display(wd)]
id_line(id, width) == [form |-> "id", dimmed |-> TRUE, width |-> width,
                       id |-> id, text |-> id]

\* Variant of flush_lines: every flushed line gets the width of the line of
\* the task that caused the flush.
flush_lines_at_level(unprinted_path, level) ==
    [j \in 1..Len(unprinted_path) |-> id_line(unprinted_path[j], level - 1)]

\* the lines the flush loop of fmt_rec writes (core.rs:129-141)
flush_lines(unprinted_path, level) ==
    [j \in 1..Len(unprinted_path) |->
        id_line(unprinted_path[j], level - (Len(unprinted_path) - (j - 1)) - 1)]

\* fmt_rec threads [lines, unprinted_path] through the walk; view is the
\* WhatdoTreeView [root, filter, transitive].
RECURSIVE fmt_rec(_, _, _, _, _), fmt_whatdos(_, _, _, _, _, _)
\* Variant of fmt_whatdos: every child is told that an ancestor satisfied the
\* filter.
fmt_whatdos_inherit_all(view, wds, i, st, level, transitively_satisfies_filter) ==
    IF i > Len(wds) THEN st
    ELSE fmt_whatdos(view, wds, i + 1,
                     fmt_rec(view, wds[i], st, level, TRUE),
                     level, transitively_satisfies_filter)

\* the loop over whatdo.whatdos() (core.rs:162-170), from child i on
fmt_whatdos(view, wds, i, st, level, transitively_satisfies_filter) ==
    IF i > Len(wds) THEN st
    ELSE fmt_whatdos(view, wds, i + 1,
                     fmt_rec(view, wds[i], st, level, transitively_satisfies_filter),
                     level, transitively_satisfies_filter)

\* Variant of fmt_rec: a task that printed nothing stays on the unprinted
\* path when the walk leaves it.
fmt_rec_no_pop(view, whatdo, st, level, ancestor_satisfied_filter) ==
    LET satisfies_filter == apply(view.filter, whatdo)
        transitively_satisfies_filter ==
            satisfies_filter \/ (view.transitive /\ ancestor_satisfied_filter)
        flushed ==
            IF whatdo.id # view.root.id /\ transitively_satisfies_filter
            THEN [lines |-> st.lines \o flush_lines(st.unprinted_path, level),
                  unprinted_path |-> <<>>]
            ELSE st
        own ==
            IF whatdo.id = view.root.id THEN flushed
            ELSE IF satisfies_filter
            THEN [flushed EXCEPT !.lines = @ \o <<full_line(whatdo, level - 1)>>]
            ELSE IF transitively_satisfies_filter
            THEN [flushed EXCEPT !.lines = @ \o <<id_line(whatdo.id, level - 1)>>]
            ELSE [flushed EXCEPT !.unprinted_path = Append(@, whatdo.id)]
    IN  fmt_whatdos(view, whatdos(whatdo), 1, own, level + 1,
                    transitively_satisfies_filter)

fmt_rec(view, whatdo, st, level, ancestor_satisfied_filter) ==
    LET satisfies_filter == apply(view.filter, whatdo)
        transitively_satisfies_filter ==
            satisfies_filter \/ (view.transitive /\ ancestor_satisfied_filter)
        flushed ==
            IF whatdo.id # view.root.id /\ transitively_satisfies_filter
            THEN [lines |-> st.lines \o flush_lines(st.unprinted_path, level),
                  unprinted_path |-> <<>>]
            ELSE st
        own ==
            IF whatdo.id = view.root.id THEN flushed
            ELSE IF satisfies_filter
            THEN [flushed EXCEPT !.lines = @ \o <<full_line(whatdo, level - 1)>>]
            ELSE IF transitively_satisfies_filter
            THEN [flushed EXCEPT !.lines = @ \o <<id_line(whatdo.id, level - 1)>>]
            ELSE [flushed EXCEPT !.unprinted_path = Append(@, whatdo.id)]
        after == fmt_whatdos(view, whatdos(whatdo), 1, own, level + 1,
                             transitively_satisfies_filter)
        n == Len(after.unprinted_path)
    IN  IF n > 0 /\ after.unprinted_path[n] = whatdo.id
        THEN [after EXCEPT !.unprinted_path = SubSeq(@, 1, n - 1)]
        ELSE after

\* impl fmt::Display for WhatdoTreeView
fmt(view) == fmt_rec(view, view.root, [lines |-> <<>>, unprinted_path |-> <<>>], 0, FALSE)

(***************************************************************************)
(* Documents the commands are run on. A document is described by [n, par,  *)
(* pri, que, tags, bn]: n tasks below the root (index 0), par[j] < j the   *)
(* index of the parent of task j (children are listed in index order), and *)
(* per index the priority, queue, tags and branch_name keys of the task.   *)
(* A task with none of these keys and no children is written in the        *)
(* shorthand string form.                                                  *)
(***************************************************************************)
RootId == "r"
TaskIds == <<"a", "b", "c">>
MissingId == "z"
IdOf(i) == IF i = 0 THEN RootId ELSE TaskIds[i]

\* longest queue list of a generated document
MaxQueueLen == 2
\* largest priority value of a generated document
MaxPriority == 1

Ascending(S) ==
    [k \in 1..Cardinality(S) |-> CHOOSE x \in S : Cardinality({y \in S : y < x}) = k - 1]

RECURSIVE MkWhatdo(_, _)
MkWhatdo(d, i) ==
    LET kids == Ascending({j \in (i + 1)..d.n : d.par[j] = i})
        plain == /\ i # 0 /\ kids = <<>> /\ d.que[i] = None /\ d.pri[i] = None
                 /\ d.tags[i] = None /\ d.bn[i] = None
    IN  IF plain THEN simple(IdOf(i), Some("text"))
        ELSE Whatdo(IdOf(i),
                    IF i = 0 THEN Some("project") ELSE None,
                    IF kids = <<>> THEN None
                    ELSE Some([k \in 1..Len(kids) |-> MkWhatdo(d, kids[k])]),
                    d.que[i], d.pri[i], d.tags[i], d.bn[i], FALSE)

Shapes(n) == {p \in [1..n -> 0..(n - 1)] : \A j \in 1..n : p[j] < j}
NoKey(n) == [i \in 0..n |-> None]
SeqsUpTo(S, k) == UNION {[1..m -> S] : m \in 0..k}
Priorities == {None} \cup {Some(p) : p \in 0..MaxPriority}
TaskIdsOf(n) == {TaskIds[j] : j \in 1..n}

\* priorities on every task, at most one queue entry on the root
PriorityDocs ==
    {MkWhatdo([n |-> n, par |-> par,
               pri |-> [i \in 0..n |-> IF i = 0 THEN None ELSE pri[i]],
               que |-> [i \in 0..n |-> IF i = 0 THEN q ELSE None],
               tags |-> NoKey(n), bn |-> NoKey(n)], 0) :
        n \in {Len(TaskIds)}, par \in Shapes(Len(TaskIds)),
        pri \in [1..Len(TaskIds) -> Priorities],
        q \in {None} \cup {Some(s) : s \in SeqsUpTo(TaskIdsOf(Len(TaskIds)), 1)}}

\* queues on the root and on the first task, naming any id: tasks in or out
\* of the subtree, the owner itself, the root, an id that is in no document
QueueDocs ==
    UNION {
      {MkWhatdo([n |-> n, par |-> par, pri |-> NoKey(n),
                 que |-> [i \in 0..n |-> IF i = 0 THEN q0
                                         ELSE IF i = 1 THEN q1 ELSE None],
                 tags |-> NoKey(n), bn |-> NoKey(n)], 0) :
          par \in Shapes(n),
          q0 \in {None} \cup {Some(s) : s \in SeqsUpTo(TaskIdsOf(n) \cup {RootId, MissingId},
                                                      MaxQueueLen)},
          q1 \in {None} \cup {Some(<<x>>) : x \in TaskIdsOf(n) \cup {MissingId}}} :
      n \in 0..Len(TaskIds)}

SortDocs == PriorityDocs \cup QueueDocs

(***************************************************************************)
(* Helpers to speak about a tree                                           *)
(***************************************************************************)
RECURSIVE Nodes(_)
Nodes(wd) == {wd} \cup UNION {Nodes(whatdos(wd)[i]) : i \in 1..Len(whatdos(wd))}

\* ids in depth-first order, every occurrence
RECURSIVE IdList(_), IdListOf(_)
IdListOf(wds) == IF wds = <<>> THEN <<>> ELSE IdList(wds[1]) \o IdListOf(Tail(wds))
IdList(wd) == <<wd.id>> \o IdListOf(whatdos(wd))

\* the task of the tree with the given id
NodeById(tree, id) == CHOOSE n \in Nodes(tree) : n.id = id

Injective(s) == \A i, j \in 1..Len(s) : s[i] = s[j] => i = j
Ids(s) == [i \in 1..Len(s) |-> s[i].id]
IsLeaf(wd) == whatdos(wd) = <<>>

(***************************************************************************)
(* SpecSort: sort_whatdos as a function of its arguments                   *)
(***************************************************************************)
InitSort ==
    /\ file \in SortDocs
    /\ branch = "main"
    /\ branches = {"main"}
    /\ out = [op |-> "init"]

\* test_sort_whatdos: the always-true filter and an empty visited set
SortAll(wd) ==
    /\ out.op = "init"
    /\ out' = [op |-> "sort_all", wd |-> wd,
               filter |-> [kind |-> "all"], visited |-> {},
               ret |-> sort_whatdos(wd, [kind |-> "all"], {}, FALSE, 1)]
    /\ UNCHANGED <<file, branch, branches>>

\* any filter, any visited set
SortWith(wd, ids, visited) ==
    /\ out.op = "init"
    /\ out' = [op |-> "sort_with", wd |-> wd,
               filter |-> [kind |-> "set", ids |-> ids], visited |-> visited,
               ret |-> sort_whatdos(wd, [kind |-> "set", ids |-> ids], visited, FALSE, 1)]
    /\ UNCHANGED <<file, branch, branches>>

\* next(amount, tags, priorities), the current git branch being current_branch
NextCall(current_branch, amount, tags, priorities) ==
    /\ out.op = "init"
    /\ out' = [op |-> "next", wd |-> file, current_branch |-> current_branch,
               amount |-> amount, tags |-> tags, priorities |-> priorities,
               ret |-> next(file, current_branch, amount, tags, priorities)]
    /\ UNCHANGED <<file, branch, branches>>

AllIds == {RootId} \cup Range(TaskIds)

\* the filters and visited sets sort_whatdos is called with: a filter that
\* accepts everything with one id visited, or a filter that accepts at most
\* one task with nothing visited
SortArgs ==
    {<<AllIds, {x}>> : x \in AllIds} \cup {<<{x}, {}>> : x \in AllIds} \cup {<<{}, {}>>}

NextSort ==
    \/ \E wd \in Nodes(file) : SortAll(wd)
    \/ \E wd \in Nodes(file), a \in SortArgs : SortWith(wd, a[1], a[2])
    \/ \E b \in AllIds \cup {"main"} : NextCall(b, None, <<>>, <<>>)

SpecSort == InitSort /\ [][NextSort]_vars

(***************************************************************************)
(* Properties of sort_whatdos                                              *)
(***************************************************************************)
Returned == out.op \in {"sort_all", "sort_with", "next"} /\ ~out.ret.overflow

\* the child of p whose subtree holds the task id
ChildToward(p, id) ==
    CHOOSE c \in Range(whatdos(p)) : id \in Range(IdList(c))

\* the ids on the way from wd down to the task id, both included
RECURSIVE PathTo(_, _)
PathTo(wd, id) ==
    IF wd.id = id THEN <<id>>
    ELSE <<wd.id>> \o PathTo(ChildToward(wd, id), id)

IndexIn(p, c) == CHOOSE i \in 1..Len(whatdos(p)) : whatdos(p)[i] = c

\* sibling x is expanded before sibling y: ascending priority, no priority
\* last, document order among equals
SiblingBefore(p, x, y) ==
    IF IsSome(x.priority) /\ IsSome(y.priority)
    THEN \/ Unwrap(x.priority) < Unwrap(y.priority)
         \/ (Unwrap(x.priority) = Unwrap(y.priority) /\ IndexIn(p, x) < IndexIn(p, y))
    ELSE IF IsSome(x.priority) THEN TRUE
    ELSE IF IsSome(y.priority) THEN FALSE
    ELSE IndexIn(p, x) < IndexIn(p, y)

\* task x comes before task y in the structural traversal below p
RECURSIVE StructBefore(_, _, _)
StructBefore(p, x, y) ==
    LET cx == ChildToward(p, x)
        cy == ChildToward(p, y)
    IN  IF cx = cy THEN StructBefore(cx, x, y) ELSE SiblingBefore(p, cx, cy)

NoQueueIn(wd) == \A n \in Nodes(wd) : n.queue = None
NoQueueBelow(wd) == \A n \in Nodes(wd) \ {wd} : n.queue = None
LeafIds(wd) == {n.id : n \in {m \in Nodes(wd) : IsLeaf(m)}}

\* C1: one top-level call of sort_whatdos, or of next, on a tree with
\* pairwise distinct ids never returns the same task id twice.
C1_NoIdTwice ==
    (Returned /\ Injective(IdList(file))) => Injective(Ids(out.ret.result))

\* a returned leaf that the root's queue names and that is nested below a
\* child of the root
C1_Witness ==
    /\ out.op = "sort_all" /\ out.wd = file /\ ~out.ret.overflow
    /\ IsSome(file.queue)
    /\ \E i \in 1..Len(out.ret.result) :
          /\ out.ret.result[i].id \in Range(Unwrap(file.queue))
          /\ find_parent(file, out.ret.result[i].id) # Some(file)

\* the first queue entry of wd whose task holds the leaf id in its subtree;
\* one past the queue's end when no entry does
QueueRank(wd, id) ==
    LET queue == Unwrap(wd.queue)
        hits == {i \in 1..Len(queue) :
                    /\ find_whatdo(wd, queue[i]) # None
                    /\ id \in Range(IdList(Unwrap(find_whatdo(wd, queue[i]))))}
    IN  IF hits = {} THEN Len(queue) + 1 ELSE MinOf(hits)

\* C6: for a node with a queue, the always-true filter and nothing visited,
\* the result lists every leaf of the subtree exactly once: first the leaves
\* under the queue entries, in the order of the entries, then the remaining
\* leaves in the priority order of the structural traversal.
C6_QueueThenPriority ==
    (out.op = "sort_all" /\ ~out.ret.overflow /\ IsSome(out.wd.queue)) =>
        LET ids == Ids(out.ret.result)
            n == Len(out.wd.queue[1])
        IN  /\ Injective(ids)
            /\ Range(ids) = LeafIds(out.wd)
            /\ \A i, j \in 1..Len(ids) :
                  i < j => QueueRank(out.wd, ids[i]) <= QueueRank(out.wd, ids[j])
            /\ NoQueueBelow(out.wd) =>
                  \A i, j \in 1..Len(ids) :
                     (i < j /\ QueueRank(out.wd, ids[i]) = n + 1
                            /\ QueueRank(out.wd, ids[j]) = n + 1)
                        => StructBefore(out.wd, ids[i], ids[j])

\* the root's queue names c; a has priority 1 and b priority 0
C6_Witness ==
    /\ out.op = "sort_all" /\ out.wd = file /\ ~out.ret.overflow
    /\ file.queue = Some(<<"c">>)
    /\ Ids(out.ret.result) = <<"c", "b", "a">>
    /\ Ids(whatdos(file)) = <<"a", "b", "c">>

\* C7: without queues, the children of every node are expanded in ascending
\* priority, a child without priority after those that have one, children
\* of equal priority (or both without) in document order.
C7_PriorityOrder ==
    (out.op = "sort_all" /\ ~out.ret.overflow /\ NoQueueIn(out.wd)) =>
        LET ids == Ids(out.ret.result)
        IN  /\ Range(ids) = LeafIds(out.wd)
            /\ \A i, j \in 1..Len(ids) : i < j => StructBefore(out.wd, ids[i], ids[j])

\* a without priority, b and c with the same priority: b, c, a
C7_Witness ==
    /\ out.op = "sort_all" /\ out.wd = file /\ NoQueueIn(file)
    /\ Ids(whatdos(file)) = <<"a", "b", "c">>
    /\ file.whatdos[1][1].priority = None
    /\ file.whatdos[1][2].priority = Some(1)
    /\ file.whatdos[1][3].priority = Some(1)
    /\ Ids(out.ret.result) = <<"b", "c", "a">>

\* C23: on a tree with pairwise distinct ids sort_whatdos and next return,
\* whatever the queues list: the calls never nest deeper than the tree has
\* tasks.
C23_Terminates ==
    (out.op \in {"sort_all", "sort_with", "next"} /\ Injective(IdList(out.wd))) =>
        ~out.ret.overflow

\* the tree with entry i of the queue of the task `owner` taken out
RECURSIVE WithoutEntry(_, _, _)
WithoutEntry(wd, owner, i) ==
    IF wd.id = owner
    THEN [wd EXCEPT !.queue = Some(SubSeq(wd.queue[1], 1, i - 1)
                                      \o SubSeq(wd.queue[1], i + 1, Len(wd.queue[1])))]
    ELSE IF wd.whatdos = None THEN wd
    ELSE [wd EXCEPT !.whatdos = Some([k \in 1..Len(wd.whatdos[1]) |->
                                         WithoutEntry(wd.whatdos[1][k], owner, i)])]

\* the queue entries <<owner, i>> of the tree that name no task in the
\* subtree of their owner
UnresolvedEntries(tree) ==
    {e \in {<<n.id, i>> : n \in {m \in Nodes(tree) : IsSome(m.queue)}, i \in 1..MaxQueueLen + 1} :
        LET n == NodeById(tree, e[1])
        IN  /\ e[2] <= Len(n.queue[1])
            /\ n.queue[1][e[2]] \notin Range(IdList(n))}

\* C19: a queue entry that names no task in the subtree of its owner does
\* not fail the sort and is not marked visited: the call returns the
\* tasks, and leaves the visited set, it returns and leaves for the tree
\* that has this entry taken out of the queue.
C19_UnresolvedSkipped ==
    (out.op \in {"sort_all", "sort_with"} /\ ~out.ret.overflow) =>
        \A e \in UnresolvedEntries(out.wd) :
            LET other == sort_whatdos(WithoutEntry(out.wd, e[1], e[2]), out.filter,
                                      out.visited, FALSE, 1)
            IN  /\ ~other.overflow
                /\ other.visited = out.ret.visited
                /\ other.result = [k \in 1..Len(out.ret.result) |->
                                      WithoutEntry(out.ret.result[k], e[1], e[2])]

\* the root queue names an id no task has and then the task c, which
\* is found; two tasks are returned, c first, and the missing id is not in
\* the visited set
C19_Witness ==
    /\ out.op = "sort_all" /\ out.wd = file /\ ~out.ret.overflow
    /\ file.queue = Some(<<MissingId, "c">>)
    /\ <<RootId, 1>> \in UnresolvedEntries(file)
    /\ Len(out.ret.result) = 2
    /\ out.ret.result[1].id = "c"
    /\ MissingId \notin out.ret.visited

(***************************************************************************)
(* SpecNext: next as a function of the document, the current git branch,   *)
(* the amount and the tag and priority filters                             *)
(***************************************************************************)
TagKeys == {None, Some(<<"t">>), Some(<<"u">>)}
OverrideName == "x"

\* tags on every task, a priority on the first task, a branch_name on the
\* root or on the first task or on none, a queue on the root or none
NextDocs ==
    {MkWhatdo([n |-> Len(TaskIds), par |-> par,
               pri |-> [i \in 0..Len(TaskIds) |-> IF i = 1 THEN p ELSE None],
               que |-> [i \in 0..Len(TaskIds) |-> IF i = 0 THEN q ELSE None],
               tags |-> [i \in 0..Len(TaskIds) |-> IF i = 0 THEN None ELSE tg[i]],
               bn |-> [i \in 0..Len(TaskIds) |->
                          IF i = o THEN Some(OverrideName) ELSE None]], 0) :
        par \in Shapes(Len(TaskIds)), p \in Priorities,
        q \in {None, Some(<<TaskIds[Len(TaskIds)]>>)},
        tg \in [1..Len(TaskIds) -> TagKeys], o \in {-1, 0, 1}}

InitNext ==
    /\ file \in NextDocs
    /\ branch = "main"
    /\ branches = {"main"}
    /\ out = [op |-> "init"]

\* status(): the active task and the next ten
Status(current_branch) ==
    /\ out.op = "init"
    /\ out' = [op |-> "status", wd |-> file, current_branch |-> current_branch,
               current |-> current(file, current_branch),
               ret |-> next(file, current_branch, Some(10), <<>>, <<>>)]
    /\ UNCHANGED <<file, branch, branches>>

NextFilters == {<<<<>>, <<>>>>, <<<<"t">>, <<>>>>, <<<<>>, <<1>>>>, <<<<"t">>, <<1>>>>}
CurrentBranches == AllIds \cup {"main", OverrideName}

NextNext ==
    \/ \E b \in CurrentBranches, f \in NextFilters : NextCall(b, None, f[1], f[2])
    \/ \E b \in CurrentBranches : NextCall(b, Some(1), <<>>, <<>>)
    \/ \E b \in CurrentBranches : Status(b)

SpecNext == InitNext /\ [][NextNext]_vars

\* C5: the filter of next accepts a task exactly when (no tag is asked for
\* or the task has a tag that is asked for) and (no priority is asked for or
\* the task has a priority that is asked for).
C5_FilterAsSpecified ==
    out.op = "next" =>
        \A wd \in Nodes(file) :
            next_filter(out.tags, out.priorities, wd) <=>
                /\ \/ out.tags = <<>>
                   \/ (IsSome(wd.tags) /\ Range(Unwrap(wd.tags)) \cap Range(out.tags) # {})
                /\ \/ out.priorities = <<>>
                   \/ (IsSome(wd.priority) /\ Unwrap(wd.priority) \in Range(out.priorities))

\* the tasks whose effective reference name is the current git branch
ActiveIds(root, current_branch) ==
    {n.id : n \in {m \in Nodes(root) :
                      (IF m.branch_name = None THEN m.id ELSE m.branch_name[1])
                          = current_branch}}

\* C8: the result of next never holds the active task.
C8_ActiveNotReturned ==
    (out.op = "next" /\ ~out.ret.overflow) =>
        \A i \in 1..Len(out.ret.result) :
            out.ret.result[i].id \notin ActiveIds(file, out.current_branch)

\* next was run with an active task that is a leaf, named in the root's
\* queue, and other work was returned
C8_Witness ==
    /\ out.op = "next" /\ ~out.ret.overflow
    /\ out.tags = <<>> /\ out.priorities = <<>> /\ out.amount = None
    /\ \E n \in Nodes(file) :
          /\ n.id \in ActiveIds(file, out.current_branch)
          /\ IsLeaf(n)
          /\ IsSome(file.queue) /\ n.id \in Range(Unwrap(file.queue))
    /\ Len(out.ret.result) > 0

\* the filter Command::Next describes: one of the given tags, if any are
\* given, and one of the given priorities, if any are given
AsksFor(tags, priorities, wd) ==
    /\ \/ tags = <<>>
       \/ (IsSome(wd.tags) /\ Range(Unwrap(wd.tags)) \cap Range(tags) # {})
    /\ \/ priorities = <<>>
       \/ (IsSome(wd.priority) /\ Unwrap(wd.priority) \in Range(priorities))

\* C20, for sort_whatdos: every returned task satisfies the filter, or a
\* task on the way from the start node down to it does.
C20_SortReturnsMatches ==
    (out.op \in {"sort_all", "sort_with"} /\ ~out.ret.overflow
        /\ Injective(IdList(out.wd))) =>
        \A k \in 1..Len(out.ret.result) :
            \E id \in Range(PathTo(out.wd, out.ret.result[k].id)) :
                apply(out.filter, NodeById(out.wd, id))

\* C20: every task next returns for given tags and priorities has one of
\* the tags and one of the priorities, or a task on the way from the root
\* down to it has; and every task sort_whatdos returns satisfies its filter,
\* or a task on the way from the start node down to it does.
C20_ReturnedMatches ==
    /\ C20_SortReturnsMatches
    /\ (out.op = "next" /\ ~out.ret.overflow /\ Injective(IdList(file))) =>
          \A k \in 1..Len(out.ret.result) :
              \E id \in Range(PathTo(file, out.ret.result[k].id)) :
                  AsksFor(out.tags, out.priorities, NodeById(file, id))

\* C26: next with amount All returns every task without children, other than
\* the active task, that has one of the tags and one of the priorities asked
\* for or lies below a task that has, wherever the queues name it and
\* wherever the active task lies.
C26_NoLeafLost ==
    (out.op = "next" /\ out.amount = None /\ ~out.ret.overflow
        /\ Injective(IdList(file))) =>
        \A n \in Nodes(file) :
            (/\ IsLeaf(n)
             /\ current(file, out.current_branch) # Some(n)
             /\ \E id \in Range(PathTo(file, n.id)) :
                    AsksFor(out.tags, out.priorities, NodeById(file, id)))
                => n.id \in Range(Ids(out.ret.result))

(***************************************************************************)
(* SpecDelete: delete_whatdo as a function of the tree and the id          *)
(***************************************************************************)
InitDelete ==
    /\ file \in QueueDocs \cup NextDocs
    /\ branch = "main"
    /\ branches = {"main"}
    /\ out = [op |-> "init"]

DeleteWhatdo(id) ==
    /\ out.op = "init"
    /\ out' = [op |-> "delete_whatdo", wd |-> file, id |-> id,
               ret |-> delete_whatdo(file, id)]
    /\ UNCHANGED <<file, branch, branches>>

\* test_delete_whatdo: a second delete_whatdo on the tree the first returned
DeleteAgain(id) ==
    /\ out.op = "delete_whatdo"
    /\ out' = [op |-> "delete_again", wd |-> out.ret, id |-> id,
               ret |-> delete_whatdo(out.ret, id)]
    /\ UNCHANGED <<file, branch, branches>>

NextDelete ==
    \/ \E id \in Range(TaskIds) \cup {MissingId} : DeleteWhatdo(id)
    \/ \E id \in Range(TaskIds) : DeleteAgain(id)

SpecDelete == InitDelete /\ [][NextDelete]_vars

Deleted == out.op \in {"delete_whatdo", "delete_again"}

\* C2: in the tree delete_whatdo(tree, X) returns, X not being the root, no
\* task has the id X and no queue names X.
C2_DeletedEverywhere ==
    (Deleted /\ out.id # out.wd.id) =>
        /\ out.id \notin Range(IdList(out.ret))
        /\ find_whatdo(out.ret, out.id) = None
        /\ \A n \in Nodes(out.ret) :
              IsSome(n.queue) => out.id \notin Range(Unwrap(n.queue))

\* the tasks of wd that are not in the subtree of a task with the id X
RECURSIVE Outside(_, _)
Outside(wd, X) ==
    {wd} \cup UNION {Outside(whatdos(wd)[i], X) :
                        i \in {j \in 1..Len(whatdos(wd)) : whatdos(wd)[j].id # X}}

\* what C17 says of every task outside X's subtree: the task is in the
\* result with its fields, its child list and queue are present if they
\* were, and their entries other than X are the same, in the same order
FrameOf(in, res, X) ==
    LET keep == Outside(in, X)
        Other(e) == e # X
    IN  /\ {n.id : n \in Nodes(res)} = {n.id : n \in keep}
        /\ Len(IdList(res)) = Cardinality(keep)
        /\ \A n \in keep :
              LET m == NodeById(res, n.id)
              IN  /\ m.summary = n.summary /\ m.priority = n.priority
                  /\ m.tags = n.tags /\ m.branch_name = n.branch_name
                  /\ m.simple_format = n.simple_format
                  /\ (m.whatdos = None) = (n.whatdos = None)
                  /\ (m.queue = None) = (n.queue = None)
                  /\ Ids(whatdos(m)) = SelectSeq(Ids(whatdos(n)), Other)
                  /\ IsSome(n.queue) =>
                        /\ SelectSeq(m.queue[1], Other) = SelectSeq(n.queue[1], Other)
                        /\ Len(m.queue[1]) <= Len(n.queue[1])

NamedInQueue(tree, X) ==
    \E n \in Nodes(tree) : IsSome(n.queue) /\ X \in Range(n.queue[1])

\* every queue entry of the tree names a task of the tree
NoDangling(tree) ==
    \A n \in Nodes(tree) :
        IsSome(n.queue) => Range(n.queue[1]) \subseteq Range(IdList(tree))

\* C24: if every queue entry of the tree names a task of the tree, then every
\* queue entry of delete_whatdo(tree, X) names a task of delete_whatdo(tree, X).
C24_NoDanglingAfterDelete ==
    (Deleted /\ NoDangling(out.wd)) => NoDangling(out.ret)

\* C17 as stated: the frame of delete_whatdo(tree, X), and a result equal to
\* the input whenever X is the id of no task of the tree.
C17_FrameAsStated ==
    Deleted =>
        /\ FrameOf(out.wd, out.ret, out.id)
        /\ out.id \notin Range(IdList(out.wd)) => out.ret = out.wd

\* C17, amended: the frame of delete_whatdo(tree, X), and a result equal to
\* the input whenever X is the id of no task of the tree and no queue of the
\* tree names X.
C17_Frame ==
    Deleted =>
        /\ FrameOf(out.wd, out.ret, out.id)
        /\ (out.id \notin Range(IdList(out.wd)) /\ ~NamedInQueue(out.wd, out.id))
              => out.ret = out.wd

\* b, the only child of a, is deleted from a tree whose root queue names b
\* and then a: a keeps an empty child list, the queue keeps a
C17_Witness ==
    /\ out.op = "delete_whatdo" /\ out.id = "b"
    /\ out.wd.queue = Some(<<"b", "a">>)
    /\ out.ret.queue = Some(<<"a">>)
    /\ Ids(whatdos(NodeById(out.wd, "a"))) = <<"b">>
    /\ NodeById(out.ret, "a").whatdos = Some(<<>>)

(***************************************************************************)
(* SpecView: the tree view show prints                                     *)
(***************************************************************************)
InitView ==
    /\ file \in NextDocs
    /\ branch = "main"
    /\ branches = {"main"}
    /\ out = [op |-> "init"]

\* show with an id (main.rs:224-238): "Not found", or the view of the tree
\* with the filter w.id == id and transitive set
ShowId(id) ==
    /\ out.op = "init"
    /\ out' = [op |-> "show_id", id |-> id,
               found |-> IsSome(find_whatdo(file, id)),
               ret |-> IF IsSome(find_whatdo(file, id))
                       THEN fmt([root |-> file, filter |-> [kind |-> "id", id |-> id],
                                 transitive |-> TRUE])
                       ELSE [lines |-> <<>>, unprinted_path |-> <<>>]]
    /\ UNCHANGED <<file, branch, branches>>

\* show with tags and priorities (main.rs:240-253)
ShowFiltered(tags, priorities) ==
    /\ out.op = "init"
    /\ out' = [op |-> "show", tags |-> tags, priorities |-> priorities,
               ret |-> fmt([root |-> file,
                            filter |-> [kind |-> "show", tags |-> tags,
                                        priorities |-> priorities],
                            transitive |-> TRUE])]
    /\ UNCHANGED <<file, branch, branches>>

\* a WhatdoTreeView of the document printed with any filter, transitive or not
Render(filter, transitive) ==
    /\ out.op = "init"
    /\ out' = [op |-> "render", filter |-> filter, transitive |-> transitive,
               ret |-> fmt([root |-> file, filter |-> filter,
                            transitive |-> transitive])]
    /\ UNCHANGED <<file, branch, branches>>

\* the filters Render is given: no task, one task by id, one tag
ViewFilters ==
    {[kind |-> "set", ids |-> {}]}
        \cup {[kind |-> "id", id |-> x] : x \in AllIds \cup {MissingId}}
        \cup {[kind |-> "show", tags |-> <<t>>, priorities |-> <<>>] : t \in {"t", "v"}}

NextView ==
    \/ \E id \in AllIds \cup {MissingId} : ShowId(id)
    \/ \E f \in NextFilters : ShowFiltered(f[1], f[2])
    \/ \E f \in ViewFilters, transitive \in BOOLEAN : Render(f, transitive)

SpecView == InitView /\ [][NextView]_vars

\* C10: show X for a task X below the root prints one dimmed id-only line
\* for every ancestor of X below the root, shallowest first, then the full
\* line of X, and no line for a task that is neither an ancestor of X, nor X,
\* nor a descendant of X.
C10_AncestorsThenTask ==
    (out.op = "show_id" /\ out.found /\ out.id # file.id) =>
        LET path == PathTo(file, out.id)
            k == Len(path) - 2
            lines == out.ret.lines
            below == Range(IdList(Unwrap(find_whatdo(file, out.id))))
        IN  /\ Len(lines) >= k + 1
            /\ \A i \in 1..k :
                  /\ lines[i].form = "id" /\ lines[i].dimmed
                  /\ lines[i].id = path[i + 1]
            /\ lines[k + 1].form = "full" /\ ~lines[k + 1].dimmed
            /\ lines[k + 1].id = out.id
            /\ lines[k + 1].text = display(Unwrap(find_whatdo(file, out.id)))
            /\ \A i \in (k + 2)..Len(lines) : lines[i].id \in below \ {out.id}

\* c is shown; it lies two levels below the root, behind a sibling of one
\* of its ancestors
C10_Witness ==
    /\ out.op = "show_id" /\ out.found /\ out.id = "c"
    /\ Ids(whatdos(file)) = <<"a", "b">>
    /\ PathTo(file, "c") = <<"r", "b", "c">>
    /\ Len(out.ret.lines) = 2

\* C22: every line of a view, full, dimmed or flushed, of a task that lies d
\* levels below the root has exactly d - 1 fill characters, for every filter
\* and for transitive true and false; no width is negative.
C22_IndentIsDepth ==
    (out.op \in {"show_id", "show", "render"}) =>
        \A i \in 1..Len(out.ret.lines) :
            LET line == out.ret.lines[i]
                d == Len(PathTo(file, line.id)) - 1
            IN  /\ line.width >= 0
                /\ line.width = d - 1

\* a view that is not transitive prints c, three levels below the root, and
\* before it the flushed lines of its ancestors a and b
C22_Witness ==
    /\ out.op = "render" /\ ~out.transitive
    /\ Len(out.ret.lines) = 3
    /\ PathTo(file, "c") = <<RootId, "a", "b", "c">>
    /\ out.ret.lines[1] = id_line("a", 0)
    /\ out.ret.lines[2] = id_line("b", 1)
    /\ out.ret.lines[3].form = "full" /\ out.ret.lines[3].width = 2

\* C11: a view whose filter no task of the tree satisfies, the root included,
\* prints no line, transitive or not, and leaves the unprinted path empty.
C11_NoMatchNoLine ==
    (out.op = "render" /\ \A n \in Nodes(file) : ~apply(out.filter, n)) =>
        /\ out.ret.lines = <<>>
        /\ out.ret.unprinted_path = <<>>

\* a non-transitive view with a filter nothing satisfies, of a tree whose
\* task c lies two levels below the root
C11_Witness ==
    /\ out.op = "render" /\ ~out.transitive
    /\ \A n \in Nodes(file) : ~apply(out.filter, n)
    /\ Len(PathTo(file, "c")) = 3
    /\ out.ret.lines = <<>>

(***************************************************************************)
(* SpecFile: a document value is parsed, the tree is serialized, and what  *)
(* was written is parsed again. Here `file` is the tree in memory (None    *)
(* before the first parse) and out.content the document value.             *)
(***************************************************************************)
kv(k, v) == <<String(k), v>>

\* values of a task without children: the shorthand string, mappings with
\* no key, one key or several keys, keys parse_whatdo does not read, and
\* values parse_whatdo rejects
LeafValues ==
    {String("text"),
     Mapping(<<>>),
     Mapping(<<kv("summary", String("text"))>>),
     Mapping(<<kv("priority", Number(Some(1)))>>),
     Mapping(<<kv("priority", Number(None))>>),
     Mapping(<<kv("priority", String("text"))>>),
     Mapping(<<kv("tags", Sequence(<<String("t"), String("u")>>))>>),
     Mapping(<<kv("tags", Sequence(<<>>))>>),
     Mapping(<<kv("tags", Sequence(<<String("T")>>))>>),
     Mapping(<<kv("branch_name", String("x"))>>),
     Mapping(<<kv("queue", Sequence(<<String("b"), String("z")>>))>>),
     Mapping(<<kv("queue", Sequence(<<String("!")>>))>>),
     Mapping(<<kv("whatdos", Mapping(<<>>))>>),
     Mapping(<<kv("summary", Null)>>),
     Mapping(<<kv("notes", String("text"))>>),
     Mapping(<<kv("tags", Sequence(<<String("t")>>)), kv("priority", Number(Some(0))),
               kv("summary", String("text")), kv("branch_name", String("x"))>>),
     Null,
     Sequence(<<>>)}

\* values of a task that may hold the task c
TaskValues ==
    LeafValues
        \cup {Mapping(<<kv("whatdos", Mapping(<<kv("c", v)>>))>>) : v \in LeafValues}
        \cup {Mapping(<<kv("whatdos", Mapping(<<kv("c", v)>>)),
                        kv("summary", String("text"))>>) : v \in LeafValues}

\* the documents: a root in any of the leaf forms, a root with the tasks a
\* and b, a root with a key that is no string or no id
FileContents ==
    LeafValues
        \cup {Mapping(pre \o <<kv("whatdos", Mapping(<<kv("a", va), kv("b", vb)>>))>>) :
                pre \in {<<>>, <<kv("summary", String("project"))>>,
                         <<kv("queue", Sequence(<<String("b")>>))>>},
                va \in TaskValues, vb \in LeafValues}
        \cup {Mapping(<<kv("whatdos", Mapping(<<<<k, String("text")>>>>))>>) :
                k \in {Number(Some(1)), String("!")}}

\* how many times a document is parsed
MaxLoads == 2

InitFile ==
    /\ file = None
    /\ branch = "main"
    /\ branches = {"main"}
    /\ out \in {[op |-> "file", content |-> d, loads |-> 0] : d \in FileContents}

\* parse_file: the tree replaces the one in memory, which out.prev keeps
ParseFile ==
    /\ out.op = "file" /\ out.loads < MaxLoads
    /\ LET r == parse_whatdo(RootId, out.content)
       IN  IF r.ok
           THEN /\ file' = r.val
                /\ out' = [op |-> "parsed", content |-> out.content,
                           loads |-> out.loads + 1, prev |-> file]
           ELSE /\ file' = file
                /\ out' = [op |-> "error", content |-> out.content,
                           loads |-> out.loads, err |-> r.err]
    /\ UNCHANGED <<branch, branches>>

\* write_to_file: the value of the serialized pair becomes the document
WriteToFile ==
    /\ out.op = "parsed"
    /\ out' = [op |-> "file", content |-> serialize_whatdo(file)[2], loads |-> out.loads]
    /\ UNCHANGED <<file, branch, branches>>

NextFile == ParseFile \/ WriteToFile

SpecFile == InitFile /\ [][NextFile]_vars

\* C12: what parse_whatdo reads from a document it accepts, serialized and
\* parsed again, is accepted and equals the first tree in every field of
\* every task.
C12_RoundTrip ==
    /\ (out.op = "parsed" /\ out.loads >= 2) => file = out.prev
    /\ out.op = "error" => out.loads = 0

\* the second parse of a document whose task a was a mapping with no keys,
\* whose task b was a shorthand string and whose root had summary and tasks
C12_Witness ==
    /\ out.op = "parsed" /\ out.loads = 2
    /\ IsSome(file.summary)
    /\ Len(whatdos(file)) = 2
    /\ whatdos(file)[1] = Whatdo("a", None, None, None, None, None, None, FALSE)
    /\ whatdos(file)[2] = simple("b", Some("text"))

(***************************************************************************)
(* Spec: the commands, each one load -> compute -> store -> git cycle on   *)
(* the document `file`, with the git state `branch` (the current branch)   *)
(* and `branches` (the branches that exist). `out` keeps what the last     *)
(* command was given, loaded, returned and called.                         *)
(***************************************************************************)
DefaultBranch == "main"

\* the documents the first command finds: a root alone; a root whose queue
\* names its only child a, which holds b and c (the shape sample.rs writes);
\* a root with a branch_name and a queue of nested tasks (the shape of the
\* test data of core.rs)
InitDocs ==
    {MkWhatdo([n |-> 0, par |-> <<>>, pri |-> NoKey(0), que |-> NoKey(0),
               tags |-> NoKey(0), bn |-> NoKey(0)], 0),
     MkWhatdo([n |-> 3, par |-> <<0, 1, 1>>,
               pri |-> [i \in 0..3 |-> IF i = 1 THEN Some(1) ELSE None],
               que |-> [i \in 0..3 |-> IF i = 0 THEN Some(<<"a">>) ELSE None],
               tags |-> [i \in 0..3 |-> IF i = 3 THEN Some(<<"t">>) ELSE None],
               bn |-> NoKey(3)], 0),
     MkWhatdo([n |-> 3, par |-> <<0, 1, 2>>,
               pri |-> [i \in 0..3 |-> IF i = 1 THEN Some(0) ELSE None],
               que |-> [i \in 0..3 |-> IF i = 0 THEN Some(<<"b", "c">>) ELSE None],
               tags |-> [i \in 0..3 |-> IF i = 2 THEN Some(<<"t">>) ELSE None],
               bn |-> [i \in 0..3 |-> IF i = 0 THEN Some(OverrideName) ELSE None]], 0)}

Init ==
    /\ file \in InitDocs
    /\ branch = DefaultBranch
    /\ branches = {DefaultBranch}
    /\ out = [op |-> "init"]

AddArg(id, tags, priority, bn, parent_id) ==
    [id |-> id, tags |-> tags, summary |-> None, priority |-> priority,
     branch_name |-> bn, parent_id |-> parent_id]

\* the arguments add is run with: a new id at the root, below a task, below
\* the active task and below a task that is not there; an id or a branch
\* name that is taken; an id or a tag that is not well-formed
AddArgs ==
    {AddArg("n", <<>>, None, None, None),
     AddArg("n", <<"t">>, Some(0), None, Some("a")),
     AddArg("n", <<>>, None, None, Some("@")),
     AddArg("n", <<>>, None, None, Some(MissingId)),
     AddArg("a", <<>>, None, None, None),
     AddArg(RootId, <<>>, None, None, None),
     AddArg("n", <<>>, None, Some("b"), None),
     AddArg("n", <<>>, None, Some(OverrideName), None),
     AddArg("!", <<>>, None, None, None),
     AddArg("n", <<"T">>, None, None, None)}

\* what the git collaborator answers: commit and merge return Ok or Err
GitOk == [commit |-> TRUE, merge |-> TRUE]
CommitErr == [commit |-> FALSE, merge |-> TRUE]
MergeErr == [commit |-> TRUE, merge |-> FALSE]

\* Variant of git_calls: the commit is made before the document is written.
git_calls_commit_first(wrote, commit, merge) ==
    (IF commit THEN <<"commit">> ELSE <<>>) \o (IF wrote THEN <<"write">> ELSE <<>>)
        \o (IF merge THEN <<"merge">> ELSE <<>>)

\* the calls a command makes once its checks have passed, in the order of
\* the code: write_to_file, then git::commit, then git::merge
git_calls(wrote, commit, merge) ==
    (IF wrote THEN <<"write">> ELSE <<>>) \o (IF commit THEN <<"commit">> ELSE <<>>)
        \o (IF merge THEN <<"merge">> ELSE <<>>)

\* the tree the next command loads after write_to_file(whatdo)
reload(whatdo) == parse_whatdo(whatdo.id, serialize_whatdo(whatdo)[2]).val

\* core::add
Add(a, commit, git) ==
    LET err == add_check(file, a, branch, branches)
        written == IF IsSome(err) THEN None ELSE Some(add_tree(file, a, branch))
    IN  /\ out.op = "init"
        /\ file' = IF IsSome(written) THEN reload(Unwrap(written)) ELSE file
        /\ out' = [op |-> "add", args |-> a, loaded |-> file, current_branch |-> branch,
                   commit |-> commit, git |-> git, written |-> written,
                   err |-> IF IsSome(err) THEN err
                           ELSE IF commit /\ ~git.commit THEN Some("git commit failed")
                           ELSE None,
                   calls |-> IF IsSome(err) THEN <<>> ELSE git_calls(TRUE, commit, FALSE)]
        /\ UNCHANGED <<branch, branches>>

\* main::delete and main::resolve: "Not found" for an id that is not in the
\* tree, else core::delete / core::resolve. debug_assertions tells whether
\* the build keeps the debug_assert of delete_whatdo.
Remove(op, id, commit, debug_assertions, git) ==
    LET found == IsSome(find_whatdo(file, id))
        panics == found /\ debug_assertions /\ file.id = id
        wrote == found /\ ~panics
        written == IF wrote THEN Some(delete_whatdo(file, id)) ELSE None
    IN  /\ out.op = "init"
        /\ file' = IF wrote THEN reload(Unwrap(written)) ELSE file
        /\ out' = [op |-> op, id |-> id, loaded |-> file, current_branch |-> branch,
                   commit |-> commit, git |-> git, written |-> written,
                   err |-> IF ~found THEN Some("Not found")
                           ELSE IF panics THEN Some("assertion failed")
                           ELSE IF commit /\ ~git.commit THEN Some("git commit failed")
                           ELSE None,
                   calls |-> git_calls(wrote, wrote /\ commit, FALSE)]
        /\ UNCHANGED <<branch, branches>>

Delete(id, commit, debug_assertions, git) ==
    Remove("delete", id, commit, debug_assertions, git)
Resolve(id, commit, debug_assertions, git) ==
    Remove("resolve", id, commit, debug_assertions, git)

\* the branch finish merges into (core.rs:791-799)
target_branch(whatdo, current_wd, existing) ==
    LET p == find_ancestor_with_branch(whatdo, current_wd.id, existing)
        named == IF p = None THEN None
                 ELSE IF Unwrap(p).id = whatdo.id THEN whatdo.branch_name
                 ELSE Some(branch_name(Unwrap(p)))
    IN  IF IsSome(named) THEN Unwrap(named) ELSE DefaultBranch

\* Variant of finish_check: unstaged changes do not stop a merge.
finish_check_ignore_unstaged(current_wd, merge, unstaged) ==
    IF current_wd = None THEN Some("No active whatdo") ELSE None

\* The error finish returns before it touches the tree, if any
\* (core.rs:787-804)
finish_check(current_wd, merge, unstaged) ==
    IF current_wd = None THEN Some("No active whatdo")
    ELSE IF merge /\ unstaged THEN Some("You have unstaged changes")
    ELSE None

\* core::finish; unstaged is what git::has_unstaged_changes answers. A
\* git::merge that returns Err fails at its first step.
Finish(commit, merge, unstaged, debug_assertions, git) ==
    LET current_wd == current(file, branch)
        err == finish_check(current_wd, merge, unstaged)
        panics == err = None /\ debug_assertions /\ Unwrap(current_wd).id = file.id
        wrote == err = None /\ ~panics
        committed == wrote /\ (~commit \/ git.commit)
        written == IF wrote THEN Some(delete_whatdo(file, Unwrap(current_wd).id))
                   ELSE None
        target == IF IsSome(current_wd)
                  THEN target_branch(file, Unwrap(current_wd), branches)
                  ELSE DefaultBranch
    IN  /\ out.op = "init"
        /\ file' = IF wrote THEN reload(Unwrap(written)) ELSE file
        /\ branch' = IF committed /\ merge /\ git.merge /\ target \in branches
                     THEN target ELSE branch
        /\ out' = [op |-> "finish", loaded |-> file, current_branch |-> branch,
                   current |-> current_wd, target |-> target,
                   args |-> [commit |-> commit, merge |-> merge, unstaged |-> unstaged],
                   commit |-> commit, git |-> git, written |-> written,
                   err |-> IF IsSome(err) THEN err
                           ELSE IF panics THEN Some("assertion failed")
                           ELSE IF commit /\ ~git.commit THEN Some("git commit failed")
                           ELSE IF merge /\ ~git.merge THEN Some("git merge failed")
                           ELSE None,
                   calls |-> git_calls(wrote, wrote /\ commit, committed /\ merge)]
        /\ UNCHANGED branches

\* main::start: git checkout -b of the task's branch name, which changes
\* nothing when the branch exists
Start(id) ==
    LET wd == find_whatdo(file, id)
        name == branch_name(Unwrap(wd))
    IN  /\ out.op = "init"
        /\ IsSome(wd)
        /\ branch' = IF name \in branches THEN branch ELSE name
        /\ branches' = branches \cup {name}
        /\ out' = [op |-> "start", id |-> id, loaded |-> file, err |-> None,
                   calls |-> <<"checkout">>]
        /\ UNCHANGED file

\* core::next on the document and branch as they are
NextCmd(amount, tags, priorities) ==
    /\ out.op = "init"
    /\ out' = [op |-> "next", wd |-> file, current_branch |-> branch,
               amount |-> amount, tags |-> tags, priorities |-> priorities,
               ret |-> next(file, branch, amount, tags, priorities)]
    /\ UNCHANGED <<file, branch, branches>>

\* the process ends: the next command finds the document and the git state,
\* and nothing else of this one
Exit ==
    /\ out.op # "init"
    /\ out' = [op |-> "init"]
    /\ UNCHANGED <<file, branch, branches>>

CmdIds == AllIds \cup {"n", MissingId}
\* the tasks start is run on, the root among them
StartIds == {"a", "c", RootId}

\* the build is a debug build or a release build; the two differ only where
\* the debug_assert of delete_whatdo fails
Builds(id) == IF id = file.id THEN BOOLEAN ELSE {FALSE}

ActiveBuilds ==
    IF current(file, branch) = Some(file) THEN BOOLEAN ELSE {FALSE}

\* <<commit, merge, unstaged, git>>
FinishFlags == {<<TRUE, TRUE, FALSE, GitOk>>, <<TRUE, TRUE, TRUE, GitOk>>,
                <<TRUE, FALSE, FALSE, GitOk>>, <<FALSE, FALSE, FALSE, GitOk>>,
                <<TRUE, TRUE, FALSE, CommitErr>>, <<TRUE, TRUE, FALSE, MergeErr>>}

Next ==
    \/ \E a \in AddArgs : Add(a, TRUE, GitOk)
    \/ \E g \in {GitOk, CommitErr} :
          Add(AddArg("n", <<>>, None, None, None), g = CommitErr, g)
    \/ \E id \in CmdIds : \E dbg \in Builds(id) : Delete(id, TRUE, dbg, GitOk)
    \/ Delete("b", TRUE, FALSE, CommitErr)
    \/ \E id \in AllIds : \E dbg \in Builds(id) : Resolve(id, FALSE, dbg, GitOk)
    \/ \E f \in FinishFlags, dbg \in ActiveBuilds : Finish(f[1], f[2], f[3], dbg, f[4])
    \/ \E id \in StartIds : Start(id)
    \/ \E f \in {<<<<>>, <<>>>>, <<<<"t">>, <<>>>>} : NextCmd(None, f[1], f[2])
    \/ Exit

Spec == Init /\ [][Next]_vars

(***************************************************************************)
(* Properties of the commands                                              *)
(***************************************************************************)
\* effective reference names in depth-first order, every occurrence
RECURSIVE RefNameList(_), RefNameListOf(_)
RefNameListOf(wds) ==
    IF wds = <<>> THEN <<>> ELSE RefNameList(wds[1]) \o RefNameListOf(Tail(wds))
RefNameList(wd) ==
    <<IF wd.branch_name = None THEN wd.id ELSE wd.branch_name[1]>>
        \o RefNameListOf(whatdos(wd))

NewRefName == IF out.args.branch_name = None THEN out.args.id
              ELSE out.args.branch_name[1]
IdTaken == out.args.id \in Range(IdList(out.loaded))
RefNameTaken == NewRefName \in Range(RefNameList(out.loaded))

\* C3: add returns an error and leaves the document as it was loaded when
\* the new id is the id of a task of the tree, the root included, or the new
\* effective reference name is that of a task of the tree.
C3_AddRejectsTaken ==
    (out.op = "add" /\ (IdTaken \/ RefNameTaken)) =>
        (IsSome(out.err) /\ file = out.loaded /\ out.calls = <<>>)

\* an add with a new id whose branch_name is the id of a task in the tree
C3_Witness ==
    /\ out.op = "add" /\ ~IdTaken /\ RefNameTaken
    /\ IsSome(out.args.branch_name)
    /\ IsSome(out.err) /\ file = out.loaded

\* C4: the ids of the document stay pairwise distinct, and so do its
\* effective reference names, whatever commands run.
C4_IdsAndNamesDistinct ==
    Injective(IdList(file)) /\ Injective(RefNameList(file))

\* a finish that removed the active task from a tree an earlier add had
\* extended
C4_Witness ==
    /\ out.op = "finish" /\ out.err = None
    /\ file # out.loaded
    /\ "n" \in Range(IdList(file))

\* C9: next never returns the root.
C9_RootNotReturned ==
    (out.op = "next" /\ ~out.ret.overflow) =>
        \A i \in 1..Len(out.ret.result) : out.ret.result[i].id # file.id

\* the effective reference name of the task id of the tree root
RefNameOf(root, id) ==
    LET wd == Unwrap(find_whatdo(root, id))
    IN  IF wd.branch_name = None THEN wd.id ELSE wd.branch_name[1]

\* C13: a finish that merges, merges into the effective reference name of
\* the nearest strict ancestor of the active task, the root included, whose
\* reference name is an existing branch, and into the default branch when
\* there is no such ancestor.
C13_MergeTarget ==
    (out.op = "finish" /\ out.err = None /\ "merge" \in Range(out.calls)) =>
        LET path == PathTo(out.loaded, out.current[1].id)
            hits == {i \in 1..(Len(path) - 1) : RefNameOf(out.loaded, path[i]) \in branches}
        IN  out.target = IF hits = {} THEN DefaultBranch
                         ELSE RefNameOf(out.loaded, path[CHOOSE m \in hits : \A k \in hits : k <= m])

\* C14: add returns an error, writes nothing and commits nothing when its
\* id is not of the form [A-Za-z0-9_/-]+, or one of its tags is not of the
\* form [a-z0-9_-]+, or its parent id is the id of no task, or its parent is
\* "@" and no task is active.
C14_AddRejectsInvalid ==
    (/\ out.op = "add"
     /\ \/ out.args.id \notin LowerCase \cup UpperCase
        \/ \E i \in 1..Len(out.args.tags) : out.args.tags[i] \notin LowerCase
        \/ /\ IsSome(out.args.parent_id) /\ out.args.parent_id # Some("@")
           /\ out.args.parent_id[1] \notin Range(IdList(out.loaded))
        \/ /\ out.args.parent_id = Some("@")
           /\ ActiveIds(out.loaded, out.current_branch) = {})
        => (IsSome(out.err) /\ out.written = None /\ out.calls = <<>>
                /\ file = out.loaded)

\* an add below "@" with a new, well-formed id while the current branch is
\* the branch of no task of a tree that has tasks
C14_Witness ==
    /\ out.op = "add" /\ out.args.parent_id = Some("@")
    /\ out.args.id \notin Range(IdList(out.loaded))
    /\ ActiveIds(out.loaded, out.current_branch) = {}
    /\ Len(whatdos(out.loaded)) > 0
    /\ out.err = Some("No current whatdo to add to") /\ file = out.loaded

\* C15: finish returns an error, writes nothing, commits nothing and merges
\* nothing when no task is active, and when a merge is asked for while there
\* are unstaged changes.
C15_FinishRejects ==
    (/\ out.op = "finish"
     /\ \/ ActiveIds(out.loaded, out.current_branch) = {}
        \/ (out.args.merge /\ out.args.unstaged))
        => (IsSome(out.err) /\ out.written = None /\ out.calls = <<>>
                /\ file = out.loaded /\ branch = out.current_branch)

\* a finish with merge on the branch of an active task below the root,
\* stopped by unstaged changes
C15_Witness ==
    /\ out.op = "finish" /\ out.args.merge /\ out.args.unstaged
    /\ IsSome(out.current) /\ out.current[1].id # out.loaded.id
    /\ out.err = Some("You have unstaged changes")
    /\ file = out.loaded

\* the place of call c in the call sequence
CallIndex(calls, c) == CHOOSE i \in 1..Len(calls) : calls[i] = c

ParentsOfOnly(tree, X) ==
    {p \in Nodes(tree) : Len(whatdos(p)) = 1 /\ whatdos(p)[1].id = X}

\* C21: every task next returns has no child (its child list is absent or
\* empty), so no task of the document that has a child is returned; and
\* when delete or resolve has removed the only child of a task, next, with
\* amount All and no filter, on the document it wrote returns that task,
\* unless the task is the active one.
C21_OnlyChildlessReturned ==
    /\ (out.op = "next" /\ ~out.ret.overflow) =>
          /\ \A k \in 1..Len(out.ret.result) : whatdos(out.ret.result[k]) = <<>>
          /\ \A n \in Nodes(out.wd) :
                whatdos(n) # <<>> => n.id \notin Range(Ids(out.ret.result))
    /\ (out.op \in {"delete", "resolve"} /\ IsSome(out.written)) =>
          \A p \in ParentsOfOnly(out.loaded, out.id) :
              LET later == next(file, branch, None, <<>>, <<>>)
              IN  (~later.overflow /\ p.id \notin ActiveIds(file, branch)) =>
                      p.id \in Range(Ids(later.result))

\* next returns a task that is in the document with a child list that has
\* been emptied
C21_Witness ==
    /\ out.op = "next" /\ ~out.ret.overflow
    /\ \E n \in Nodes(file) :
          /\ n.whatdos = Some(<<>>)
          /\ n.id # RootId
          /\ n \in Range(out.ret.result)

\* C18: a delete, a resolve or a finish whose target is the root of the tree
\* writes no document and makes no commit.
C18_RootNeverDeleted ==
    (\/ (out.op \in {"delete", "resolve"} /\ out.id = out.loaded.id)
     \/ (out.op = "finish" /\ IsSome(out.current)
            /\ out.current[1].id = out.loaded.id))
        => (out.calls = <<>> /\ out.written = None /\ file = out.loaded)

(***************************************************************************)
(* SpecAddDelete: add of a new task, then delete of that task, on the      *)
(* document the add wrote                                                  *)
(***************************************************************************)
\* up to three tasks in every shape, tasks without keys in shorthand form,
\* with or without a queue on the root and on the first task; a queue may
\* name an id no task has
AddDeleteDocs ==
    UNION {
      {MkWhatdo([n |-> n, par |-> par, pri |-> NoKey(n),
                 que |-> [i \in 0..n |-> IF i = 0 THEN q0
                                         ELSE IF i = 1 THEN q1 ELSE None],
                 tags |-> NoKey(n), bn |-> NoKey(n)], 0) :
          par \in Shapes(n),
          q0 \in {None, Some(<<>>), Some(<<MissingId>>), Some(<<TaskIds[1], MissingId>>)},
          q1 \in {None, Some(<<MissingId>>)}} :
      n \in 0..Len(TaskIds)}

InitAddDelete ==
    /\ file \in AddDeleteDocs
    /\ branch = DefaultBranch
    /\ branches = {DefaultBranch}
    /\ out = [op |-> "init"]

\* the arguments of the add: an id no task has, which a queue may name, below
\* the root or below any task
NewTaskArgs ==
    {AddArg(id, <<>>, None, None, p) :
        id \in {"n", MissingId}, p \in {None} \cup {Some(x) : x \in AllIds}}

\* core::delete of the task the last command added
DeleteAdded ==
    /\ out.op = "add" /\ out.err = None
    /\ file' = reload(delete_whatdo(file, out.args.id))
    /\ out' = [op |-> "delete_added", id |-> out.args.id, args |-> out.args,
               before |-> out.loaded, loaded |-> file,
               written |-> Some(delete_whatdo(file, out.args.id))]
    /\ UNCHANGED <<branch, branches>>

\* the process ends after the delete; the next add finds its document
ExitAfterDelete == out.op = "delete_added" /\ Exit

NextAddDelete ==
    \/ \E a \in NewTaskArgs : Add(a, FALSE, GitOk)
    \/ DeleteAdded
    \/ ExitAfterDelete

SpecAddDelete == InitAddDelete /\ [][NextAddDelete]_vars

\* the task the add put the new task below
ParentOfAdded ==
    NodeById(out.before, IF out.args.parent_id = None THEN out.before.id
                         ELSE Unwrap(out.args.parent_id))

\* the tree with an empty child list on the task pid, which is thereby
\* written as a mapping
RECURSIVE WithEmptyList(_, _)
WithEmptyList(wd, pid) ==
    IF wd.id = pid
    THEN [wd EXCEPT !.whatdos = Some(<<>>), !.simple_format = FALSE]
    ELSE IF wd.whatdos = None THEN wd
    ELSE [wd EXCEPT !.whatdos = Some([k \in 1..Len(wd.whatdos[1]) |->
                                         WithEmptyList(wd.whatdos[1][k], pid)])]

\* C25 as stated: after add of X below P and delete of X the tree equals the
\* tree before the add and serializes to the same document, whether P had a
\* child list or not.
C25_RestoresAsStated ==
    out.op = "delete_added" =>
        /\ file = out.before
        /\ serialize_whatdo(file) = serialize_whatdo(out.before)

\* C25, amended: if no queue named X before the add, then after add of X
\* below P and delete of X the tree equals the tree before the add and
\* serializes to the same document when P had a child list, and when P had
\* none it differs only in that P has an empty child list and is written as
\* a mapping.
C25_Restores ==
    (out.op = "delete_added" /\ ~NamedInQueue(out.before, out.id)) =>
        IF IsSome(ParentOfAdded.whatdos)
        THEN /\ file = out.before
             /\ serialize_whatdo(file) = serialize_whatdo(out.before)
        ELSE /\ file = WithEmptyList(out.before, ParentOfAdded.id)
             /\ file # out.before
             /\ serialize_whatdo(file) # serialize_whatdo(out.before)

\* n is added below b, which has the child c, and deleted: the tree is the
\* one before the add
C25_Witness ==
    /\ out.op = "delete_added" /\ out.id = "n"
    /\ ParentOfAdded.id = "b"
    /\ Ids(whatdos(ParentOfAdded)) = <<"c">>
    /\ Ids(whatdos(NodeById(out.loaded, "b"))) = <<"c", "n">>
    /\ file = out.before

====
